---- MODULE Spec2Model ----
(***************************************************************************)
(* Model of the Velo backend's workflow code:                              *)
(*   - backend/main.py: the task handlers execute_task, approve_task,      *)
(*     reject_task, the background coroutine run_task_execution and the    *)
(*     planning coroutine run_planning_phase;                              *)
(*   - backend/main_enhanced.py: run_planning_phase_with_ai;               *)
(*   - backend/graph/state.py and backend/graph/workflow.py: the workflow  *)
(*     state helpers and the Build & QA graph.                             *)
(* The Firestore documents are the variable tasks (one record per task     *)
(* document), the broadcast stream is kept per task id in events.          *)
(***************************************************************************)
EXTENDS Integers, Sequences, FiniteSets, TLC

VARIABLES
    tasks,          \* Firestore collection 'tasks': task id -> document
    tasks_lookup,   \* main.py tasks_lookup: task id -> project id
    artifacts,      \* Firestore collection 'artifacts': per task_id, in creation order
    events,         \* broadcast messages carrying a task_id, per task, in order
    execs,          \* scheduled run_task_execution coroutines, per task and position
    invoked,        \* number of run_task_execution invocations scheduled, per task
    plan_deps,      \* "dependencies" of the task breakdown the tasks were created from
    last,           \* the last handler or coroutine step that ran, with its HTTP status
    budget,         \* API requests the environment may still issue
    max_inflight,   \* executions the environment lets run at once
    plan,           \* a planning coroutine: its position, locals and the project record
    state,          \* graph/state.py AgentState
    qa,             \* graph/workflow.py BuildQAState of each run, with the node to run next
    registry,       \* agents/base_agent.py AgentRegistry._agents, in insertion order
    found,          \* the last find_best_agent call: its argument and its result
    art,            \* graph/workflow.py ArtifactState of each run, with the node to run next
    manager,        \* main.py ConnectionManager, the websocket endpoints and a broadcast
    listing         \* the last task listing: the store it was run on and its result

taskVars == <<tasks, tasks_lookup, artifacts, events, execs, invoked, plan_deps, last, budget,
             max_inflight>>

otherVars == <<plan, state, qa, registry, found, art, manager, listing>>

graphVars == <<state, qa>>

vars == <<tasks, tasks_lookup, artifacts, events, execs, invoked, plan_deps, last, budget,
          max_inflight, plan, state, qa, registry, found, art, manager, listing>>

----------------------------------------------------------------------------
(* Bounds of the exploration.                                              *)

\* API requests issued in one behaviour of Spec
MaxOps == 3

\* Task breakdown the tasks of the initial state were created from: the
\* dependencies of each task, by position (a task depends on earlier tasks).
InitialPlan == <<{}, {1}>>

\* max_retries of the Build & QA loop (run_build_qa_workflow) and the default
\* of should_retry
MaxRetries == 5

\* Ids a request may name: the task documents created by planning, and one
\* id no document was ever created under
RequestIds == 1..(Len(plan_deps) + 1)

ProjectId == "proj"

\* positions of a run_task_execution coroutine between its suspension points;
\* "sending" is inside a broadcast whose send to a subscriber has not returned
ExecPcs == {"queued", "working", "template", "sending"}

NoExecs == [pc \in ExecPcs |-> 0]

----------------------------------------------------------------------------
(* Helpers over the collections.                                           *)

\* FirestoreDB.get_task: the document, or None when it does not exist
HasTask(t) == t \in DOMAIN tasks

\* an update that merges the given fields into every task document
update_task_all(t, updates) ==
    [u \in DOMAIN tasks |-> [f \in DOMAIN tasks[u] |->
        IF f \in DOMAIN updates THEN updates[f] ELSE tasks[u][f]]]

\* FirestoreDB.update_task: merge the given fields into the document
update_task(t, updates) ==
    [tasks EXCEPT ![t] = [f \in DOMAIN tasks[t] |->
        IF f \in DOMAIN updates THEN updates[f] ELSE tasks[t][f]]]

\* FirestoreDB.create_artifact for task t; the new artifact's id is its
\* position among the artifacts of t
create_artifact(t, content) == [artifacts EXCEPT ![t] = Append(@, content)]

\* ConnectionManager.broadcast of a message that carries task_id t
broadcast(t, type) == [events EXCEPT ![t] = Append(@, type)]

\* BackgroundTasks.add_task(run_task_execution, task_id, ...)
add_task(t) == [execs EXCEPT ![t]["queued"] = @ + 1]

Move(t, from, to) ==
    [execs EXCEPT ![t] = [pc \in ExecPcs |->
        IF pc = from THEN execs[t][pc] - 1
        ELSE IF pc = to THEN execs[t][pc] + 1
        ELSE execs[t][pc]]]

Leave(t, from) == [execs EXCEPT ![t][from] = @ - 1]

InFlightOf(e) == e["queued"] + e["working"] + e["template"] + e["sending"]

InFlight(t) == InFlightOf(execs[t])

Count(seq, x) == Cardinality({i \in 1..Len(seq) : seq[i] = x})

----------------------------------------------------------------------------
(* Initial state: a project whose planning phase has created its tasks     *)
(* (run_planning_phase: status "todo", every task entered in tasks_lookup).*)

InitTasks(breakdown, ops, inflight) ==
    /\ tasks = [t \in 1..Len(breakdown) |->
                  [project_id |-> ProjectId, status |-> "todo",
                   retry_count |-> 0, artifact_id |-> 0]]
    /\ tasks_lookup = [t \in 1..Len(breakdown) |-> ProjectId]
    /\ artifacts = [t \in 1..Len(breakdown) |-> <<>>]
    /\ events = [t \in 1..Len(breakdown) |-> <<>>]
    /\ execs = [t \in 1..Len(breakdown) |-> NoExecs]
    /\ invoked = [t \in 1..Len(breakdown) |-> 0]
    /\ plan_deps = breakdown
    /\ last = [op |-> "init", task |-> 0, code |-> 0]
    /\ budget = ops
    /\ max_inflight = inflight

\* No planning coroutine, AgentState or Build & QA run is active
NoPlan == [pc |-> "none"]
NoState == [phase |-> "none"]
NoQA == <<>>
NoRegistry == <<>>
NoFound == [called |-> FALSE, required |-> <<>>, result |-> 0]
NoArt == <<>>
NoManager == [active_connections |-> <<>>]
NoListing == <<>>

NoTasks ==
    /\ tasks = <<>>
    /\ tasks_lookup = <<>>
    /\ artifacts = <<>>
    /\ events = <<>>
    /\ execs = <<>>
    /\ invoked = <<>>
    /\ plan_deps = <<>>
    /\ last = [op |-> "init", task |-> 0, code |-> 0]
    /\ budget = 0
    /\ max_inflight = 0

Init ==
    /\ InitTasks(InitialPlan, MaxOps, MaxOps)
    /\ plan = NoPlan
    /\ state = NoState
    /\ qa = NoQA
    /\ registry = NoRegistry /\ found = NoFound /\ art = NoArt
    /\ manager = NoManager /\ listing = NoListing

----------------------------------------------------------------------------
(* HTTP handlers of main.py.                                               *)

AllInFlight == LET S == DOMAIN execs
                   Sum[T \in SUBSET S] ==
                       IF T = {} THEN 0
                       ELSE LET x == CHOOSE x \in T : TRUE
                            IN InFlight(x) + Sum[T \ {x}]
               IN Sum[S]

\* The environment issues one more request
Request ==
    /\ budget > 0
    /\ AllInFlight < max_inflight
    /\ budget' = budget - 1
    /\ UNCHANGED <<max_inflight, plan, state, qa, registry, found, art, manager, listing>>

\* POST /api/task/{task_id}/execute
execute_task(t) ==
    /\ Request
    /\ IF ~HasTask(t)
       THEN /\ last' = [op |-> "execute", task |-> t, code |-> 404]
            /\ UNCHANGED <<tasks, tasks_lookup, artifacts, events, execs, invoked, plan_deps>>
       ELSE /\ tasks_lookup' = [x \in DOMAIN tasks_lookup \cup {t} |->
                                  IF x = t THEN tasks[t].project_id ELSE tasks_lookup[x]]
            /\ execs' = add_task(t)
            /\ invoked' = [invoked EXCEPT ![t] = @ + 1]
            /\ last' = [op |-> "execute", task |-> t, code |-> 200]
            /\ UNCHANGED <<tasks, artifacts, events, plan_deps>>

\* POST /api/task/{task_id}/approve
approve_task(t) ==
    /\ Request
    /\ IF t \notin DOMAIN tasks_lookup \/ ~HasTask(t)
       THEN /\ last' = [op |-> "approve", task |-> t, code |-> 404]
            /\ UNCHANGED <<tasks, tasks_lookup, artifacts, events, execs, invoked, plan_deps>>
       ELSE /\ tasks' = update_task(t, [status |-> "completed"])
            /\ events' = broadcast(t, "task_approved")
            /\ last' = [op |-> "approve", task |-> t, code |-> 200]
            /\ UNCHANGED <<tasks_lookup, artifacts, execs, invoked, plan_deps>>

\* reject_task without the re-execution (lines 1233-1234 left out)
reject_task_no_requeue(t) ==
    /\ Request
    /\ IF t \notin DOMAIN tasks_lookup \/ ~HasTask(t)
       THEN /\ last' = [op |-> "reject", task |-> t, code |-> 404]
            /\ UNCHANGED <<tasks, tasks_lookup, artifacts, events, execs, invoked, plan_deps>>
       ELSE /\ tasks' = update_task(t, [status |-> "pending",
                                        retry_count |-> tasks[t].retry_count + 1])
            /\ events' = broadcast(t, "task_rejected")
            /\ last' = [op |-> "reject", task |-> t, code |-> 200]
            /\ UNCHANGED <<tasks_lookup, artifacts, execs, invoked, plan_deps>>

\* POST /api/task/{task_id}/reject
reject_task(t) ==
    /\ Request
    /\ IF t \notin DOMAIN tasks_lookup \/ ~HasTask(t)
       THEN /\ last' = [op |-> "reject", task |-> t, code |-> 404]
            /\ UNCHANGED <<tasks, tasks_lookup, artifacts, events, execs, invoked, plan_deps>>
       ELSE /\ tasks' = update_task(t, [status |-> "pending",
                                        retry_count |-> tasks[t].retry_count + 1])
            /\ events' = broadcast(t, "task_rejected")
            /\ execs' = add_task(t)
            /\ invoked' = [invoked EXCEPT ![t] = @ + 1]
            /\ last' = [op |-> "reject", task |-> t, code |-> 200]
            /\ UNCHANGED <<tasks_lookup, artifacts, plan_deps>>

----------------------------------------------------------------------------
(* run_task_execution, one action per stretch between suspension points.   *)

\* lines 558-571: mark the task in_progress and broadcast the start
ExecStart(t) ==
    /\ execs[t]["queued"] > 0
    /\ tasks' = update_task(t, [status |-> "in_progress"])
    /\ events' = broadcast(t, "task_execution_started")
    /\ execs' = Move(t, "queued", "working")
    /\ last' = [op |-> "exec_start", task |-> t, code |-> 0]
    /\ UNCHANGED <<tasks_lookup, artifacts, invoked, plan_deps, budget, max_inflight,
                 plan, state, qa, registry, found, art, manager, listing>>

\* lines 954-984: store the artifact, set the task pending_review with the
\* artifact reference, broadcast the completion
Persist(t, content) ==
    /\ artifacts' = create_artifact(t, content)
    /\ tasks' = update_task(t, [status |-> "pending_review",
                                artifact_id |-> Len(artifacts'[t])])
    /\ events' = broadcast(t, "task_execution_complete")

\* lines 573-624 and 954-984: after the simulated work the content generator
\* returns content (its call never yields to the event loop) and the
\* coroutine runs on to the end
ExecGenerated(t) ==
    /\ execs[t]["working"] > 0
    /\ Persist(t, "generated")
    /\ execs' = Leave(t, "working")
    /\ last' = [op |-> "exec_persist", task |-> t, code |-> 0]
    /\ UNCHANGED <<tasks_lookup, invoked, plan_deps, budget, max_inflight,
                 plan, state, qa, registry, found, art, manager, listing>>

\* run_task_execution without the try/except of lines 612-637: the
\* generator's exception ends the coroutine
ExecFallbackAborts(t) ==
    /\ execs[t]["working"] > 0
    /\ execs' = Leave(t, "working")
    /\ last' = [op |-> "exec_abort", task |-> t, code |-> 0]
    /\ UNCHANGED <<tasks, tasks_lookup, artifacts, events, invoked, plan_deps, budget, max_inflight,
                 plan, state, qa, registry, found, art, manager, listing>>

\* lines 625-637: the content generator raises; the except branch broadcasts
\* a warning (a suspension point) and substitutes the template
ExecFallback(t) ==
    /\ execs[t]["working"] > 0
    /\ events' = broadcast(t, "ai_generation_warning")
    /\ execs' = Move(t, "working", "template")
    /\ last' = [op |-> "exec_fallback", task |-> t, code |-> 0]
    /\ UNCHANGED <<tasks, tasks_lookup, artifacts, invoked, plan_deps, budget, max_inflight,
                 plan, state, qa, registry, found, art, manager, listing>>

\* lines 639-984 after the warning: the template is stored as the artifact
ExecTemplate(t) ==
    /\ execs[t]["template"] > 0
    /\ Persist(t, "template")
    /\ execs' = Leave(t, "template")
    /\ last' = [op |-> "exec_persist", task |-> t, code |-> 0]
    /\ UNCHANGED <<tasks_lookup, invoked, plan_deps, budget, max_inflight,
                 plan, state, qa, registry, found, art, manager, listing>>

----------------------------------------------------------------------------

Execute == \E t \in RequestIds : execute_task(t)
Approve == \E t \in RequestIds : approve_task(t)
Reject == \E t \in RequestIds : reject_task(t)
Start == \E t \in DOMAIN tasks : ExecStart(t)
Generated == \E t \in DOMAIN tasks : ExecGenerated(t)
Fallback == \E t \in DOMAIN tasks : ExecFallback(t)
Template == \E t \in DOMAIN tasks : ExecTemplate(t)

Next == Execute \/ Approve \/ Reject \/ Start \/ Generated \/ Fallback \/ Template

Spec == Init /\ [][Next]_vars

\* One task, enough requests to pass the retry bound, and a reviewer who
\* waits for the running execution before the next request
InitRetry ==
    /\ InitTasks(<<{}>>, MaxRetries + 1, 1)
    /\ plan = NoPlan
    /\ state = NoState
    /\ qa = NoQA
    /\ registry = NoRegistry /\ found = NoFound /\ art = NoArt
    /\ manager = NoManager /\ listing = NoListing

SpecRetry == InitRetry /\ [][Next]_vars

----------------------------------------------------------------------------
(* Planning: main.py run_planning_phase and main_enhanced.py               *)
(* run_planning_phase_with_ai, one action per stretch between awaits.      *)

\* Longest task breakdown the generator returns
MaxPlanTasks == 3

\* gemini_ai.py detect_project_type
ProjectTypes == {"software", "marketing", "design", "business", "content"}

\* A breakdown of n tasks, each depending on the one before it
Chain(n) == [i \in 1..n |-> IF i = 1 THEN {} ELSE {i - 1}]

\* A breakdown of n tasks whose dependencies form a cycle: each depends on
\* the one before it and the first on the last
Ring(n) == [i \in 1..n |-> IF i = 1 THEN {n} ELSE {i - 1}]

\* Breakdowns the generator may return: the "dependencies" of the parsed JSON
\* are whatever the model answered
GeneratedPlans == {Chain(n) : n \in 0..MaxPlanTasks} \cup {Ring(n) : n \in 1..MaxPlanTasks}

\* main.py lines 418-496: the fallback task sets
FallbackPlan(project_type) ==
    IF project_type = "marketing"
    THEN <<{}, {1}, {1}, {2, 3}, {4}>>
    ELSE <<{}, {1}, {2}, {3}>>

InitPlan(variant) ==
    /\ NoTasks
    /\ plan = [variant |-> variant,
               pc |-> IF variant = "main" THEN "detect" ELSE "prd",
               project_type |-> "none",
               prd |-> "none",            \* none, generated, template, failed
               breakdown_from |-> "none", \* none, generated, fallback, failed
               breakdown |-> <<>>,
               created |-> 0,
               status |-> "planning",     \* the project document's status
               log |-> <<>>]              \* broadcasts of the coroutine, in order
    /\ state = NoState
    /\ qa = NoQA
    /\ registry = NoRegistry /\ found = NoFound /\ art = NoArt
    /\ manager = NoManager /\ listing = NoListing

PlanFrame == UNCHANGED <<artifacts, last, budget, max_inflight, state, qa, registry, found, art, manager, listing>>

NoTasksTouched == UNCHANGED <<tasks, tasks_lookup, events, execs, invoked, plan_deps>>

Extend(f, x) == [i \in 1..(Len(f) + 1) |-> IF i <= Len(f) THEN f[i] ELSE x]

\* FirestoreDB.create_task / TaskRepository.create: a new document under a
\* fresh id, with the status the caller gives
create_task(status) ==
    /\ tasks' = Extend(tasks, [project_id |-> ProjectId, status |-> status,
                               retry_count |-> 0, artifact_id |-> 0])
    /\ artifacts' = Extend(artifacts, <<>>)
    /\ events' = Extend(events, <<>>)
    /\ execs' = Extend(execs, NoExecs)
    /\ invoked' = Extend(invoked, 0)

Log(type) == Append(plan.log, type)

\* main.py lines 280-290
PlanDetect(project_type) ==
    /\ plan.variant = "main" /\ plan.pc = "detect"
    /\ plan' = [plan EXCEPT !.pc = "prd", !.project_type = project_type]
    /\ NoTasksTouched /\ PlanFrame

\* main.py lines 317-389: the PRD, or the template with a warning
PlanPRD(ok) ==
    /\ plan.variant = "main" /\ plan.pc = "prd"
    /\ plan' = [plan EXCEPT
                  !.pc = "breakdown",
                  !.prd = IF ok THEN "generated" ELSE "template",
                  !.log = IF ok THEN Log("artifact_created")
                          ELSE Append(Log("ai_generation_warning"), "artifact_created")]
    /\ NoTasksTouched /\ PlanFrame

\* main.py lines 391-496: the breakdown, or the fallback task set with a warning
PlanBreakdown(ok, generated) ==
    /\ plan.variant = "main" /\ plan.pc = "breakdown"
    /\ plan' = [plan EXCEPT
                  !.pc = "create",
                  !.breakdown_from = IF ok THEN "generated" ELSE "fallback",
                  !.breakdown = IF ok THEN generated ELSE FallbackPlan(plan.project_type),
                  !.log = IF ok THEN plan.log ELSE Log("ai_generation_warning")]
    /\ plan_deps' = plan'.breakdown
    /\ UNCHANGED <<tasks, tasks_lookup, events, execs, invoked>>
    /\ PlanFrame

\* main.py lines 498-520: one pass of the loop over sample_tasks
PlanCreateTask ==
    /\ plan.variant = "main" /\ plan.pc = "create"
    /\ plan.created < Len(plan.breakdown)
    /\ create_task("todo")
    /\ tasks_lookup' = Extend(tasks_lookup, ProjectId)
    /\ plan' = [plan EXCEPT !.created = @ + 1, !.log = Log("task_created")]
    /\ UNCHANGED <<plan_deps, last, budget, max_inflight, state, qa,
                 registry, found, art, manager, listing>>

\* main.py lines 533-548
PlanFinish ==
    /\ plan.variant = "main" /\ plan.pc = "create"
    /\ plan.created = Len(plan.breakdown)
    /\ plan' = [plan EXCEPT !.pc = "done", !.status = "ready",
                            !.log = Log("project_status_ready")]
    /\ NoTasksTouched /\ PlanFrame

\* main_enhanced.py lines 216-224: the except branch of the whole coroutine
EnhancedFailed(field) ==
    [plan EXCEPT !.pc = "done", ![field] = "failed", !.log = Log("project_status_error")]

\* main_enhanced.py lines 129-170
EnhancedPRD(ok) ==
    /\ plan.variant = "enhanced" /\ plan.pc = "prd"
    /\ plan' = IF ok THEN [plan EXCEPT !.pc = "breakdown", !.prd = "generated"]
               ELSE EnhancedFailed("prd")
    /\ NoTasksTouched /\ PlanFrame

\* main_enhanced.py lines 172-182
EnhancedBreakdown(ok, generated) ==
    /\ plan.variant = "enhanced" /\ plan.pc = "breakdown"
    /\ plan' = IF ok THEN [plan EXCEPT !.pc = "create", !.breakdown_from = "generated",
                                       !.breakdown = generated]
               ELSE EnhancedFailed("breakdown_from")
    /\ plan_deps' = plan'.breakdown
    /\ UNCHANGED <<tasks, tasks_lookup, events, execs, invoked>>
    /\ PlanFrame

\* main_enhanced.py lines 184-193
EnhancedCreateTask ==
    /\ plan.variant = "enhanced" /\ plan.pc = "create"
    /\ plan.created < Len(plan.breakdown)
    /\ create_task("pending")
    /\ plan' = [plan EXCEPT !.created = @ + 1]
    /\ UNCHANGED <<tasks_lookup, plan_deps, last, budget, max_inflight, state, qa,
                 registry, found, art, manager, listing>>

\* main_enhanced.py lines 195-214
EnhancedFinish ==
    /\ plan.variant = "enhanced" /\ plan.pc = "create"
    /\ plan.created = Len(plan.breakdown)
    /\ plan' = [plan EXCEPT !.pc = "done", !.status = "in_progress",
                            !.log = Log("project_status_ready")]
    /\ NoTasksTouched /\ PlanFrame

Detect == \E project_type \in ProjectTypes : PlanDetect(project_type)
PRD == \E ok \in BOOLEAN : PlanPRD(ok)
Breakdown == \E ok \in BOOLEAN : \E generated \in GeneratedPlans : PlanBreakdown(ok, generated)
AIPRD == \E ok \in BOOLEAN : EnhancedPRD(ok)
AIBreakdown ==
    \E ok \in BOOLEAN : \E generated \in GeneratedPlans : EnhancedBreakdown(ok, generated)

PlanNext ==
    \/ Detect \/ PRD \/ Breakdown \/ PlanCreateTask \/ PlanFinish
    \/ AIPRD \/ AIBreakdown \/ EnhancedCreateTask \/ EnhancedFinish

SpecPlan == (\E variant \in {"main", "enhanced"} : InitPlan(variant)) /\ [][PlanNext]_vars

----------------------------------------------------------------------------
(* graph/state.py: the AgentState helpers.                                 *)

\* Calls of each counting helper in one behaviour
MaxHelperCalls == 3

\* WorkflowPhase, in the order of the workflow
WorkflowPhase ==
    <<"planning", "building", "testing", "artifact_generation", "completed", "failed">>

Phases == {WorkflowPhase[i] : i \in 1..Len(WorkflowPhase)}

\* create_initial_state sets max_iterations=10
MaxIterations == 10

\* create_initial_state (the task lists are kept by their length)
create_initial_state ==
    [phase |-> "planning", iteration |-> 0, max_iterations |-> MaxIterations,
     pending_tasks |-> 0, completed_tasks |-> 0, failed_tasks |-> 0,
     retry_count |-> 0, errors |-> 0, artifacts |-> 0]

\* update_phase
update_phase(new_phase) == [state EXCEPT !.phase = new_phase]

\* increment_retry
increment_retry == [state EXCEPT !.retry_count = @ + 1]

\* add_error (the list is kept by its length)
add_error == [state EXCEPT !.errors = @ + 1]

\* add_artifact (the list is kept by its length)
add_artifact == [state EXCEPT !.artifacts = @ + 1]

\* should_retry
should_retry(max_retries) == state.retry_count < max_retries

\* is_workflow_complete
is_workflow_complete ==
    \/ state.phase = "completed"
    \/ state.phase = "failed"
    \/ state.iteration >= state.max_iterations

StateFrame == UNCHANGED <<tasks, tasks_lookup, artifacts, events, execs, invoked, plan_deps,
                          last, budget, max_inflight, plan, qa, registry, found, art, manager, listing>>

UpdatePhase == \E new_phase \in Phases : state' = update_phase(new_phase) /\ StateFrame

IncrementRetry ==
    /\ state.retry_count < MaxHelperCalls
    /\ state' = increment_retry
    /\ StateFrame

AddError ==
    /\ state.errors < MaxHelperCalls
    /\ state' = add_error
    /\ StateFrame

AddArtifact ==
    /\ state.artifacts < MaxHelperCalls
    /\ state' = add_artifact
    /\ StateFrame

InitState ==
    /\ NoTasks
    /\ plan = NoPlan
    /\ state = create_initial_state
    /\ qa = NoQA
    /\ registry = NoRegistry /\ found = NoFound /\ art = NoArt
    /\ manager = NoManager /\ listing = NoListing

StateNext == UpdatePhase \/ IncrementRetry \/ AddError \/ AddArtifact

SpecState == InitState /\ [][StateNext]_vars

----------------------------------------------------------------------------
(* graph/workflow.py: the Build & QA loop, one action per node.            *)

\* Build & QA runs in progress at once
NumQARuns == 2

\* Largest max_retries a run is started with
MaxQARetries == 6

\* test_code_node passes once retry_count has reached this
PassAfterRetries == 2

\* run_build_qa_workflow: the initial BuildQAState, entry point write_code
InitialQAState(max_retries) ==
    [node |-> "write_code", code_generated |-> "none", test_passed |-> FALSE,
     validation_feedback |-> "none", retry_count |-> 0, max_retries |-> max_retries,
     final_code |-> "none", status |-> "started", writes |-> 0]

\* a routing that retries after every failed validation, whatever the count
should_retry_code_unbounded(s) ==
    IF ~s.test_passed THEN "retry" ELSE "success"

\* should_retry_code
should_retry_code(s) ==
    IF ~s.test_passed /\ s.retry_count < s.max_retries THEN "retry"
    ELSE IF s.test_passed THEN "success"
    ELSE "failed"

\* the conditional edges after test_code
Route == [retry |-> "retry", success |-> "finalize", failed |-> "END"]

\* write_code_node, then the edge to test_code; every write produces the same
\* text, and writes counts the executions of the node
write_code_node(s) ==
    [s EXCEPT !.code_generated = "code", !.writes = @ + 1, !.node = "test_code"]

\* a test_code_node that takes the generated code as final whatever the
\* validation says
test_code_node_keeps_code(s) ==
    LET tested == [s EXCEPT !.test_passed = ~(s.retry_count < PassAfterRetries),
                            !.final_code = s.code_generated]
    IN [tested EXCEPT !.node = Route[should_retry_code(tested)]]

\* test_code_node, then the conditional edge
test_code_node(s) ==
    LET tested == IF s.retry_count < PassAfterRetries
                  THEN [s EXCEPT !.test_passed = FALSE,
                                 !.validation_feedback = "Error: Missing error handling"]
                  ELSE [s EXCEPT !.test_passed = TRUE,
                                 !.final_code = s.code_generated]
    IN [tested EXCEPT !.node = Route[should_retry_code(tested)]]

\* retry_code_node, then the edge back to write_code
retry_code_node(s) == [s EXCEPT !.retry_count = @ + 1, !.node = "write_code"]

\* finalize_code_node, then the edge to END
finalize_code_node(s) == [s EXCEPT !.status = "completed", !.node = "END"]

QAFrame == UNCHANGED <<tasks, tasks_lookup, artifacts, events, execs, invoked, plan_deps,
                       last, budget, max_inflight, plan, state, registry, found, art, manager, listing>>

WriteCode ==
    \E r \in DOMAIN qa :
        /\ qa[r].node = "write_code"
        /\ qa' = [qa EXCEPT ![r] = write_code_node(qa[r])]
        /\ QAFrame

TestCode ==
    \E r \in DOMAIN qa :
        /\ qa[r].node = "test_code"
        /\ qa' = [qa EXCEPT ![r] = test_code_node(qa[r])]
        /\ QAFrame

RetryCode ==
    \E r \in DOMAIN qa :
        /\ qa[r].node = "retry"
        /\ qa' = [qa EXCEPT ![r] = retry_code_node(qa[r])]
        /\ QAFrame

FinalizeCode ==
    \E r \in DOMAIN qa :
        /\ qa[r].node = "finalize"
        /\ qa' = [qa EXCEPT ![r] = finalize_code_node(qa[r])]
        /\ QAFrame

InitQA ==
    /\ NoTasks
    /\ plan = NoPlan
    /\ state = NoState
    /\ qa \in [1..NumQARuns -> {InitialQAState(m) : m \in 0..MaxQARetries}]
    /\ registry = NoRegistry /\ found = NoFound /\ art = NoArt
    /\ manager = NoManager /\ listing = NoListing

QANext == WriteCode \/ TestCode \/ RetryCode \/ FinalizeCode

SpecQA == InitQA /\ [][QANext]_vars

----------------------------------------------------------------------------
(* Properties of the task handlers.                                        *)

IsRequest(op, t) == last'.op = op /\ last'.task = t /\ budget' < budget

\* C1: retry_count never exceeds max_retries, and a reject of a task whose
\* retry_count has reached max_retries fails the task and starts no further
\* execution.
C1_RetryBounded ==
    [][\A t \in DOMAIN tasks :
         /\ tasks'[t].retry_count <= MaxRetries
         /\ (IsRequest("reject", t) /\ tasks[t].retry_count >= MaxRetries)
               => (tasks'[t].status = "failed" /\ execs'[t] = execs[t])]_vars

\* The task state machine of the design: Todo -> InProgress -> PendingReview
\* -> {Completed | Rejected}, Rejected -> {InProgress | Failed}; the handler
\* writes "pending" for Rejected.
TransitionTable ==
    { <<"todo", "in_progress">>, <<"in_progress", "pending_review">>,
      <<"pending_review", "completed">>, <<"pending_review", "pending">>,
      <<"pending", "in_progress">>, <<"pending", "failed">> }

\* C3: every status change of a task is in the transition table, so a
\* completed or failed task never changes status again.
C3_OnlyTableTransitions ==
    [][\A t \in DOMAIN tasks :
         \/ tasks'[t].status = tasks[t].status
         \/ <<tasks[t].status, tasks'[t].status>> \in TransitionTable]_vars

\* C4: an approve or reject of a task that is not pending_review answers
\* 404 and leaves the task documents and the event stream unchanged.
C4_NotFoundUnlessPendingReview ==
    [][\A t \in DOMAIN tasks : \A op \in {"approve", "reject"} :
         (IsRequest(op, t) /\ tasks[t].status # "pending_review")
           => (last'.code = 404 /\ tasks' = tasks /\ events' = events)]_vars

\* C6: an execution is started by execute_task only for a task that is todo
\* and whose dependencies are all completed.
C6_DispatchOnlyReady ==
    [][\A t \in DOMAIN tasks :
         (IsRequest("execute", t) /\ invoked'[t] > invoked[t])
           => /\ tasks[t].status = "todo"
              /\ \A d \in plan_deps[t] : tasks[d].status = "completed"]_vars

Prefix(seq, n) == SubSeq(seq, 1, n)

\* C7: in the events of one task every completion (awaiting approval) is
\* preceded by its start, and every approval or rejection by the completion
\* it answers.
C7_EventOrder ==
    \A t \in DOMAIN events : \A i \in 1..Len(events[t]) :
        LET before == Prefix(events[t], i - 1)
            decided == Count(before, "task_approved") + Count(before, "task_rejected")
        IN /\ events[t][i] = "task_execution_complete"
                => Count(before, "task_execution_started")
                     > Count(before, "task_execution_complete")
           /\ events[t][i] \in {"task_approved", "task_rejected"}
                => Count(before, "task_execution_complete") > decided

\* C8: every scheduled run_task_execution stays in flight until it has stored
\* exactly one artifact for its task; the step that ends it leaves the task
\* pending_review with that artifact and broadcasts the completion last; a
\* generator failure broadcasts a warning, changes no task, and the template
\* is stored in place of the content; no task is ever set failed.
C8_ExecuteAlwaysPersists ==
    [][\A t \in DOMAIN tasks :
         LET ended == InFlightOf(execs'[t]) < InFlightOf(execs[t])
             stored == Len(artifacts'[t]) - Len(artifacts[t])
         IN /\ invoked'[t] = InFlightOf(execs'[t]) + Len(artifacts'[t])
            /\ stored = (IF ended THEN 1 ELSE 0)
            /\ ended => /\ InFlightOf(execs'[t]) = InFlightOf(execs[t]) - 1
                        /\ tasks'[t].status = "pending_review"
                        /\ tasks'[t].artifact_id = Len(artifacts'[t])
                        /\ events'[t] = Append(events[t], "task_execution_complete")
            /\ execs'[t]["template"] > execs[t]["template"]
                 => /\ events'[t] = Append(events[t], "ai_generation_warning")
                    /\ tasks'[t] = tasks[t]
            /\ Count(events'[t], "ai_generation_warning")
                 = Count(artifacts'[t], "template") + execs'[t]["template"]
            /\ tasks'[t].status # "failed"]_vars

\* C8 witness: an execution whose generator failed has ended with the
\* template stored and the task pending_review
C8_Witness ==
    \E t \in DOMAIN tasks :
        /\ artifacts[t] # <<>>
        /\ artifacts[t][Len(artifacts[t])] = "template"
        /\ tasks[t].status = "pending_review"
        /\ tasks[t].artifact_id = Len(artifacts[t])
        /\ last = [op |-> "exec_persist", task |-> t, code |-> 0]
        /\ events[t][Len(events[t])] = "task_execution_complete"
        /\ Count(events[t], "ai_generation_warning") = 1

\* C10: a reject of a pending_review task with retry_count below max_retries
\* adds one to retry_count, broadcasts task_rejected and schedules exactly one
\* run_task_execution, not yet started; the task is "pending" until that
\* execution starts, and the start sets it in_progress and broadcasts
\* task_execution_started.
C10_RejectRequeues ==
    [][\A t \in DOMAIN tasks :
         /\ (/\ IsRequest("reject", t)
             /\ tasks[t].status = "pending_review"
             /\ tasks[t].retry_count < MaxRetries)
              => /\ last'.code = 200
                 /\ tasks'[t].retry_count = tasks[t].retry_count + 1
                 /\ tasks'[t].status = "pending"
                 /\ events'[t] = Append(events[t], "task_rejected")
                 /\ execs'[t] = [execs[t] EXCEPT !["queued"] = @ + 1]
                 /\ invoked'[t] = invoked[t] + 1
         /\ execs'[t]["queued"] < execs[t]["queued"]
              => /\ execs'[t]["queued"] = execs[t]["queued"] - 1
                 /\ tasks'[t].status = "in_progress"
                 /\ events'[t] = Append(events[t], "task_execution_started")
         /\ Count(events'[t], "task_execution_started") + execs'[t]["queued"]
              = invoked'[t]]_vars

\* C10 witness: a task rejected while pending_review whose new execution has
\* just started
C10_Witness ==
    \E t \in DOMAIN tasks :
        /\ Len(events[t]) >= 4
        /\ events[t][Len(events[t]) - 2] = "task_execution_complete"
        /\ events[t][Len(events[t]) - 1] = "task_rejected"
        /\ events[t][Len(events[t])] = "task_execution_started"
        /\ tasks[t].retry_count = 1
        /\ tasks[t].status = "in_progress"

----------------------------------------------------------------------------
(* Properties of planning.                                                 *)

\* C9: a planning coroutine that has ended has substituted a fallback for
\* every failed generator call, created every task of the breakdown and
\* moved the project out of planning.
C9_PlanningNeverAborts ==
    plan.pc = "done"
      => /\ plan.status # "planning"
         /\ plan.prd \in {"generated", "template"}
         /\ plan.breakdown_from \in {"generated", "fallback"}
         /\ plan.created = Len(plan.breakdown)
         /\ Len(tasks) = Len(plan.breakdown)

----------------------------------------------------------------------------
(* Properties of the graph package.                                        *)

\* C2: a task document, or the Build & QA run of a task, becomes completed
\* only in the step of an approve request.
C2_CompletedOnlyByApprove ==
    [][/\ \A t \in DOMAIN tasks :
            (tasks'[t].status = "completed" /\ tasks[t].status # "completed")
              => IsRequest("approve", t)
       /\ \A r \in DOMAIN qa :
            (qa'[r].status = "completed" /\ qa[r].status # "completed")
              => (last'.op = "approve" /\ budget' < budget)]_vars

\* Position in the sequence Planning, Building/Testing, ArtifactGeneration,
\* Completed (building and testing are one stage)
PhaseRank(phase) ==
    CASE phase = "planning" -> 1
      [] phase \in {"building", "testing"} -> 2
      [] phase = "artifact_generation" -> 3
      [] phase = "completed" -> 4
      [] OTHER -> 0

\* C5: as long as the project is not failed, the phase never moves to an
\* earlier stage of the sequence.
C5_PhaseMonotonic ==
    [][\/ state.phase = "failed"
       \/ state'.phase = "failed"
       \/ PhaseRank(state'.phase) >= PhaseRank(state.phase)]_vars

----------------------------------------------------------------------------
(* Properties of the retry bound.                                          *)

\* C11: a task with max_retries = N is executed at most N times: it never has
\* more than N run_task_execution invocations, it is failed once it has been
\* rejected N times, and a Build & QA run writes code at most max_retries
\* times.
C11_AtMostMaxRetriesExecutions ==
    /\ \A t \in DOMAIN tasks :
         /\ invoked[t] <= MaxRetries
         /\ tasks[t].retry_count >= MaxRetries => tasks[t].status = "failed"
    /\ \A r \in DOMAIN qa :
         qa[r].max_retries >= 1 => qa[r].writes <= qa[r].max_retries

----------------------------------------------------------------------------
(* agents/base_agent.py: the agent registry.                               *)

\* Agent ids that get registered
MaxAgents == 2

\* AgentStatus
AgentStatus == {"idle", "active", "working", "error"}

\* metadata.capabilities of the agents registered, and the
\* required_capabilities asked for: lists, possibly with repeated entries
CapabilityLists == {<<"x">>, <<"x", "y">>, <<"y", "y">>}
RequiredLists == {<<>>, <<"x">>, <<"x", "y">>, <<"y", "x", "y">>}

\* set(list)
ToSet(list) == {list[i] : i \in 1..Len(list)}

\* BaseAgent.__init__: a new agent is idle
BaseAgent(id, capabilities) ==
    [id |-> id, capabilities |-> capabilities, status |-> "idle"]

\* a register that stores a further entry whether or not the id is present
register_append(agents, agent) == Append(agents, agent)

\* AgentRegistry.register: self._agents[agent.id] = agent; a key already in
\* the dict keeps its place
register(agents, agent) ==
    IF \E i \in 1..Len(agents) : agents[i].id = agent.id
    THEN [i \in 1..Len(agents) |-> IF agents[i].id = agent.id THEN agent ELSE agents[i]]
    ELSE Append(agents, agent)

\* BaseAgent.set_status, on the agent registered under id
set_status(agents, id, status) ==
    [i \in 1..Len(agents) |->
        IF agents[i].id = id THEN [agents[i] EXCEPT !.status = status] ELSE agents[i]]

\* find_best_agent lines 156-157: the match score of one agent
Score(agent, required_capabilities) ==
    Cardinality(ToSet(agent.capabilities) \cap ToSet(required_capabilities))

\* find_best_agent lines 151-160: the candidates, in dict order
Candidates(agents, required_capabilities) ==
    SelectSeq(agents, LAMBDA agent :
        /\ agent.status \in {"idle", "active"}
        /\ Score(agent, required_capabilities) > 0)

\* list.sort(key=score, reverse=True): stable, so candidates of equal score
\* keep their order
RECURSIVE SortByScore(_, _)
SortByScore(candidates, required_capabilities) ==
    IF candidates = <<>> THEN <<>>
    ELSE LET n == Len(candidates)
             x == candidates[n]
             sorted == SortByScore(SubSeq(candidates, 1, n - 1), required_capabilities)
             \* x goes after every element whose score is at least its own
             k == Cardinality({i \in 1..Len(sorted) :
                     Score(sorted[i], required_capabilities)
                       >= Score(x, required_capabilities)})
         IN SubSeq(sorted, 1, k) \o <<x>> \o SubSeq(sorted, k + 1, Len(sorted))

\* find_best_agent without the sort of line 166: the first candidate
find_best_agent_unsorted(agents, required_capabilities) ==
    LET candidates == Candidates(agents, required_capabilities)
    IN IF candidates = <<>> THEN 0 ELSE candidates[1].id

\* AgentRegistry.find_best_agent: the id of the agent returned, 0 for None
find_best_agent(agents, required_capabilities) ==
    LET candidates == Candidates(agents, required_capabilities)
    IN IF candidates = <<>> THEN 0
       ELSE SortByScore(candidates, required_capabilities)[1].id

RegistryFrame == UNCHANGED <<tasks, tasks_lookup, artifacts, events, execs, invoked, plan_deps,
                             last, budget, max_inflight, plan, state, qa, art, manager, listing>>

Register ==
    \E id \in 1..MaxAgents : \E capabilities \in CapabilityLists :
        /\ registry' = register(registry, BaseAgent(id, capabilities))
        /\ UNCHANGED found
        /\ RegistryFrame

SetStatus ==
    \E i \in 1..Len(registry) : \E status \in AgentStatus :
        /\ registry' = set_status(registry, registry[i].id, status)
        /\ UNCHANGED found
        /\ RegistryFrame

FindBest ==
    \E required_capabilities \in RequiredLists :
        /\ found' = [called |-> TRUE, required |-> required_capabilities,
                     result |-> find_best_agent(registry, required_capabilities)]
        /\ UNCHANGED registry
        /\ RegistryFrame

InitRegistry ==
    /\ NoTasks
    /\ plan = NoPlan
    /\ state = NoState
    /\ qa = NoQA
    /\ registry = NoRegistry /\ found = NoFound /\ art = NoArt
    /\ manager = NoManager /\ listing = NoListing

RegistryNext == Register \/ SetStatus \/ FindBest

SpecRegistry == InitRegistry /\ [][RegistryNext]_vars

----------------------------------------------------------------------------
(* Properties of the agent registry.                                       *)

\* Positions of the agents find_best_agent chooses among, when the statuses
\* in eligible are the ones it may return
Scoring(eligible, required_capabilities) ==
    {i \in 1..Len(registry) :
        /\ registry[i].status \in eligible
        /\ Score(registry[i], required_capabilities) > 0}

C13_BusyEligibleIdlePreferred ==
    [][found' # found =>
         LET required == found'.required
             scoring == Scoring({"idle", "active", "working"}, required)
             Better(i, j) ==
                \/ Score(registry[i], required) > Score(registry[j], required)
                \/ /\ Score(registry[i], required) = Score(registry[j], required)
                   /\ \/ registry[i].status = "idle" /\ registry[j].status # "idle"
                      \/ /\ (registry[i].status = "idle") = (registry[j].status = "idle")
                         /\ i <= j
         IN IF scoring = {} THEN found'.result = 0
            ELSE \E i \in scoring :
                   /\ found'.result = registry[i].id
                   /\ \A j \in scoring : Better(i, j)]_vars

----------------------------------------------------------------------------
(* Properties of task creation.                                            *)

\* Tasks among the first n of a breakdown that task i depends on, directly
\* or through at most k further tasks
RECURSIVE DependsOn(_, _, _, _)
DependsOn(deps, n, i, k) ==
    LET direct == deps[i] \cap (1..n)
    IN IF k = 0 THEN direct
       ELSE direct \cup UNION {DependsOn(deps, n, d, k - 1) : d \in direct}

HasCycle(deps, n) == \E i \in 1..n : i \in DependsOn(deps, n, i, n)

\* C14: the tasks created so far never carry dependency edges that form a
\* cycle: the creation of the task that would close a cycle fails, so it is
\* never counted as created.
C14_CyclicDependencyRejected ==
    /\ ~HasCycle(plan_deps, Len(tasks))
    /\ plan.pc # "none" => ~HasCycle(plan.breakdown, plan.created)

----------------------------------------------------------------------------
(* graph/workflow.py: the Artifact Engine workflow, one action per node.   *)

\* Artifact workflow runs in progress at once
NumArtifactRuns == 3

\* run_artifact_workflow: the initial ArtifactState, entry point
\* generate_architecture
InitialArtifactState(prd_content) ==
    [node |-> "generate_architecture", prd_content |-> prd_content,
     architecture_diagram_generated |-> FALSE, user_manual_generated |-> FALSE,
     test_report_generated |-> FALSE, deployment_guide_generated |-> FALSE,
     gcs_paths |-> {}, status |-> "started"]

\* generate_architecture_diagram_node, then the edge to save_to_gcs
generate_architecture_diagram_node(s) ==
    [s EXCEPT !.architecture_diagram_generated = TRUE, !.node = "save_to_gcs"]

\* save_to_gcs_node, then the edge to generate_manual
save_to_gcs_node(s) ==
    [s EXCEPT !.gcs_paths = {"architecture", "manual", "test_report"},
              !.status = "completed", !.node = "generate_manual"]

\* generate_user_manual_node, then the edge to generate_test_report
generate_user_manual_node(s) ==
    [s EXCEPT !.user_manual_generated = TRUE, !.node = "generate_test_report"]

\* generate_test_report_node, then the edge to END
generate_test_report_node(s) ==
    [s EXCEPT !.test_report_generated = TRUE, !.node = "END"]

ArtifactFrame == UNCHANGED <<tasks, tasks_lookup, artifacts, events, execs, invoked, plan_deps,
                             last, budget, max_inflight, plan, state, qa, registry, found, manager, listing>>

GenerateArchitecture ==
    \E r \in DOMAIN art :
        /\ art[r].node = "generate_architecture"
        /\ art' = [art EXCEPT ![r] = generate_architecture_diagram_node(art[r])]
        /\ ArtifactFrame

SaveToGcs ==
    \E r \in DOMAIN art :
        /\ art[r].node = "save_to_gcs"
        /\ art' = [art EXCEPT ![r] = save_to_gcs_node(art[r])]
        /\ ArtifactFrame

GenerateManual ==
    \E r \in DOMAIN art :
        /\ art[r].node = "generate_manual"
        /\ art' = [art EXCEPT ![r] = generate_user_manual_node(art[r])]
        /\ ArtifactFrame

GenerateTestReport ==
    \E r \in DOMAIN art :
        /\ art[r].node = "generate_test_report"
        /\ art' = [art EXCEPT ![r] = generate_test_report_node(art[r])]
        /\ ArtifactFrame

InitArtifact ==
    /\ NoTasks
    /\ plan = NoPlan
    /\ state = NoState
    /\ qa = NoQA
    /\ registry = NoRegistry /\ found = NoFound
    /\ manager = NoManager /\ listing = NoListing
    /\ art \in [1..NumArtifactRuns -> {InitialArtifactState(p) : p \in {"none", "prd"}}]

ArtifactNext == GenerateArchitecture \/ SaveToGcs \/ GenerateManual \/ GenerateTestReport

SpecArtifact == InitArtifact /\ [][ArtifactNext]_vars

\* C15: whenever the status of an artifact run is completed, the
\* architecture diagram, the user manual and the test report have all been
\* generated.
C15_CompletedAfterAllDocuments ==
    \A r \in DOMAIN art :
        art[r].status = "completed"
          => /\ art[r].architecture_diagram_generated
             /\ art[r].user_manual_generated
             /\ art[r].test_report_generated

----------------------------------------------------------------------------
(* Properties of the project phase.                                        *)

\* C16: the phase moves from building or testing to artifact_generation only
\* when no task is pending and at least one task has completed.
C16_ArtifactPhaseAfterAllTerminal ==
    [][(state.phase \in {"building", "testing"} /\ state'.phase = "artifact_generation")
         => /\ state.pending_tasks = 0
            /\ state.completed_tasks >= 1]_vars

\* C17: a project gets an error status only when planning could create no
\* task at all, never because a generator call failed; the workflow counts
\* as over, outside completed and failed, only with iteration above
\* max_iterations.
C17_FailedOnlyWhenUnrecoverable ==
    /\ plan.pc # "none"
         => (Count(plan.log, "project_status_error") > 0
               => /\ plan.prd # "failed"
                  /\ plan.breakdown_from # "failed"
                  /\ Len(tasks) = 0)
    /\ state.phase \in {"planning", "building", "testing", "artifact_generation"}
         => (is_workflow_complete => state.iteration > state.max_iterations)

----------------------------------------------------------------------------
(* A project whose breakdown is a chain of three tasks, as                 *)
(* break_down_tasks_node returns it.                                       *)

\* break_down_tasks_node: three tasks, each depending on the one before
ChainLength == 3

InitChain ==
    /\ InitTasks(Chain(ChainLength), MaxOps, MaxOps)
    /\ plan = NoPlan
    /\ state = NoState
    /\ qa = NoQA
    /\ registry = NoRegistry /\ found = NoFound /\ art = NoArt
    /\ manager = NoManager /\ listing = NoListing

SpecChain == InitChain /\ [][Next]_vars

\* executions of a task that have started and not ended
Running(e) == e["working"] + e["template"]

\* C19: in a chain of tasks an execution of a task starts only when every
\* task before it in the chain is completed, and it is then the only
\* execution running.
C19_ChainDispatchedInOrder ==
    [][\A t \in DOMAIN tasks :
         execs'[t]["working"] > execs[t]["working"]
           => /\ \A d \in 1..(t - 1) : tasks[d].status = "completed"
              /\ Running(execs'[t]) = 1
              /\ \A u \in DOMAIN tasks \ {t} : Running(execs'[u]) = 0]_vars

----------------------------------------------------------------------------
(* A project from planning to the last approval when every call of the     *)
(* content generator raises and the reviewer approves whatever awaits      *)
(* review (main.py).                                                       *)

\* Requests of the reviewer: one execute and one approve for each task of
\* the longest fallback task set
ScenarioOps == 10

InitScenario ==
    /\ tasks = <<>> /\ tasks_lookup = <<>> /\ artifacts = <<>> /\ events = <<>>
    /\ execs = <<>> /\ invoked = <<>> /\ plan_deps = <<>>
    /\ last = [op |-> "init", task |-> 0, code |-> 0]
    /\ budget = ScenarioOps
    /\ max_inflight = 1
    /\ plan = [variant |-> "main", pc |-> "detect", project_type |-> "none",
               prd |-> "none", breakdown_from |-> "none", breakdown |-> <<>>,
               created |-> 0, status |-> "planning", log |-> <<>>]
    /\ state = NoState
    /\ qa = NoQA
    /\ registry = NoRegistry /\ found = NoFound /\ art = NoArt
    /\ manager = NoManager /\ listing = NoListing

\* generate_prd raises
PRDFails == PlanPRD(FALSE)

\* generate_task_breakdown raises
BreakdownFails == PlanBreakdown(FALSE, <<>>)

\* the reviewer starts a task that was never started
ExecuteTodo ==
    \E t \in DOMAIN tasks :
        /\ tasks[t].status = "todo"
        /\ InFlight(t) = 0
        /\ execute_task(t)

\* the reviewer approves a task that awaits review
ApproveAwaiting ==
    \E t \in DOMAIN tasks :
        /\ tasks[t].status = "pending_review"
        /\ approve_task(t)

ScenarioNext ==
    \/ Detect \/ PRDFails \/ BreakdownFails \/ PlanCreateTask \/ PlanFinish
    \/ ExecuteTodo \/ ApproveAwaiting \/ Start \/ Fallback \/ Template

SpecScenario == InitScenario /\ [][ScenarioNext]_vars /\ WF_vars(ScenarioNext)

\* C18: with every generator call failing and every awaiting task approved,
\* the project eventually has status completed, with every task completed on
\* template content.
C18_FallbackProjectCompletes ==
    <>(/\ plan.status = "completed"
       /\ \A t \in DOMAIN tasks :
            /\ tasks[t].status = "completed"
            /\ artifacts[t] = <<"template">>)

----------------------------------------------------------------------------
(* The content generator call that does not return: generate_content       *)
(* calls the client library synchronously and passes no timeout, so while   *)
(* the call is out the event loop runs no other handler or coroutine.      *)

\* the event loop is inside a generator call that has not returned
Blocked == last.op = "exec_hang"

\* run_task_execution lines 613-623 / generate_content lines 144-148: the call of an
\* execution at its generation step does not return
ExecHang(t) ==
    /\ execs[t]["working"] > 0
    /\ last' = [op |-> "exec_hang", task |-> t, code |-> 0]
    /\ UNCHANGED <<tasks, tasks_lookup, artifacts, events, execs, invoked, plan_deps, budget,
                   max_inflight, plan, state, qa, registry, found, art, manager, listing>>

Hang == \E t \in DOMAIN tasks : ExecHang(t)

HangNext ==
    \/ ~Blocked /\ Execute
    \/ ~Blocked /\ Approve
    \/ ~Blocked /\ Reject
    \/ ~Blocked /\ Start
    \/ ~Blocked /\ Generated
    \/ ~Blocked /\ Fallback
    \/ ~Blocked /\ Template
    \/ ~Blocked /\ Hang

SpecHang == Init /\ [][HangNext]_vars /\ WF_vars(HangNext)

\* C20: an execution that has started always leads to its task being
\* pending_review: the generator call returns, fails or times out.
C20_GeneratorCallBounded ==
    \A t \in 1..Len(InitialPlan) :
        (Running(execs[t]) > 0) ~> (tasks[t].status = "pending_review")

----------------------------------------------------------------------------
(* A subscriber whose send does not return: ConnectionManager.broadcast    *)
(* awaits connection.send_json for each connection in turn, and the        *)
(* callers await broadcast.                                                *)

\* run_task_execution lines 558-571 with broadcast lines 186-188: the task
\* is set in_progress, then the coroutine awaits a send that does not return
ExecSendHangs(t) ==
    /\ execs[t]["queued"] > 0
    /\ tasks' = update_task(t, [status |-> "in_progress"])
    /\ events' = broadcast(t, "task_execution_started")
    /\ execs' = Move(t, "queued", "sending")
    /\ last' = [op |-> "exec_send", task |-> t, code |-> 0]
    /\ UNCHANGED <<tasks_lookup, artifacts, invoked, plan_deps, budget, max_inflight,
                   plan, state, qa, registry, found, art, manager, listing>>

SlowSend == \E t \in DOMAIN tasks : ExecSendHangs(t)

SlowNext ==
    \/ Execute \/ Approve \/ Reject \/ Start \/ Generated \/ Fallback \/ Template
    \/ SlowSend

SpecSlow == Init /\ [][SlowNext]_vars /\ WF_vars(SlowNext)

\* C21: every scheduled execution ends, whatever the subscribers do: no send
\* keeps a run_task_execution from storing its artifact and returning.
C21_DeliveryNeverBlocksExecution ==
    \A t \in 1..Len(InitialPlan) : (InFlight(t) > 0) ~> (InFlight(t) = 0)

----------------------------------------------------------------------------
(* Properties of agent assignment.                                         *)

\* C22: the find_best_agent call that returns an idle agent leaves that
\* agent marked busy in the same step, so that no later call, of any
\* project, finds it idle.
C22_SelectionMarksBusy ==
    [][(found' # found /\ found'.result # 0)
         => \A i \in 1..Len(registry') :
                registry'[i].id = found'.result => registry'[i].status # "idle"]_vars

----------------------------------------------------------------------------
(* Project teardown: DELETE /api/project/{project_id} while executions of  *)
(* the project's tasks are scheduled or running.                           *)

\* the project and its task documents are gone
Deleted == tasks = <<>> /\ plan_deps # <<>>

\* delete_project: every task and artifact document of the project and the
\* project document are deleted; tasks_lookup and the scheduled executions
\* are left as they are
delete_project ==
    /\ Request
    /\ IF Deleted
       THEN /\ last' = [op |-> "delete_project", task |-> 0, code |-> 404]
            /\ UNCHANGED <<tasks, tasks_lookup, artifacts, events, execs, invoked, plan_deps>>
       ELSE /\ tasks' = <<>>
            /\ artifacts' = [t \in DOMAIN artifacts |-> <<>>]
            /\ last' = [op |-> "delete_project", task |-> 0, code |-> 200]
            /\ UNCHANGED <<tasks_lookup, events, execs, invoked, plan_deps>>

\* a run_task_execution step whose update_task finds no document: Firestore's
\* update raises NotFound and the coroutine ends with that exception
ExecRaises(t, from) ==
    /\ execs' = Leave(t, from)
    /\ last' = [op |-> "exec_error", task |-> t, code |-> 500]
    /\ UNCHANGED <<tasks, tasks_lookup, events, invoked, plan_deps, budget, max_inflight,
                   plan, state, qa, registry, found, art, manager, listing>>

\* lines 558-561 for a deleted task: update_task raises at once
ExecStartDeleted(t) ==
    /\ execs[t]["queued"] > 0
    /\ UNCHANGED artifacts
    /\ ExecRaises(t, "queued")

\* lines 606-624 and 954-971 for a deleted task: the content is generated and
\* stored as an artifact, then update_task raises
ExecGeneratedDeleted(t) ==
    /\ execs[t]["working"] > 0
    /\ artifacts' = create_artifact(t, "generated")
    /\ ExecRaises(t, "working")

\* lines 639-971 for a deleted task, after the warning
ExecTemplateDeleted(t) ==
    /\ execs[t]["template"] > 0
    /\ artifacts' = create_artifact(t, "template")
    /\ ExecRaises(t, "template")

StartDeleted == \E t \in DOMAIN execs \ DOMAIN tasks : ExecStartDeleted(t)
GeneratedDeleted == \E t \in DOMAIN execs \ DOMAIN tasks : ExecGeneratedDeleted(t)
FallbackDeleted == \E t \in DOMAIN execs \ DOMAIN tasks : ExecFallback(t)
TemplateDeleted == \E t \in DOMAIN execs \ DOMAIN tasks : ExecTemplateDeleted(t)

DeleteNext ==
    \/ Execute \/ Approve \/ Reject \/ Start \/ Generated \/ Fallback \/ Template
    \/ delete_project \/ StartDeleted \/ GeneratedDeleted \/ FallbackDeleted \/ TemplateDeleted

SpecDelete == Init /\ [][DeleteNext]_vars

\* C23: once the project is torn down no execution is scheduled any more,
\* and an execution still in flight ends without storing an artifact,
\* without changing a task document and without raising.
C23_TeardownDiscardsInFlight ==
    [][Deleted =>
         /\ \A t \in DOMAIN execs : execs'[t]["queued"] <= execs[t]["queued"]
         /\ artifacts' = artifacts
         /\ tasks' = tasks
         /\ last'.op # "exec_error"]_vars

----------------------------------------------------------------------------
(* Registration as an upsert: the registry with each register call logged. *)

\* AgentRegistry.register called with a new BaseAgent; last records the call
\* and whether the id was already a key of the dict
RegisterLogged ==
    \E id \in 1..MaxAgents : \E capabilities \in CapabilityLists :
        /\ registry' = register(registry, BaseAgent(id, capabilities))
        /\ last' = [op |-> "register", task |-> id,
                    code |-> IF \E i \in 1..Len(registry) : registry[i].id = id
                             THEN 1 ELSE 0]
        /\ UNCHANGED <<tasks, tasks_lookup, artifacts, events, execs, invoked, plan_deps,
                       budget, max_inflight, plan, state, qa, found, art, manager, listing>>

UpsertNext == RegisterLogged \/ SetStatus

SpecUpsert == InitRegistry /\ [][UpsertNext]_vars

Ids(agents) == [i \in 1..Len(agents) |-> agents[i].id]

\* C24: register is an idempotent upsert by id. In every reachable registry
\* no id is stored twice, and for every profile: registering it twice gives
\* the registry that registering it once gives; when its id is present the
\* entry is replaced in place (same length, same order of ids, the other
\* entries untouched); when its id is absent it is added at the end.
C24_RegisterIdempotentUpsert ==
    /\ \A i, j \in 1..Len(registry) : registry[i].id = registry[j].id => i = j
    /\ \A id \in 1..MaxAgents : \A capabilities \in CapabilityLists :
         LET agent == BaseAgent(id, capabilities)
             once == register(registry, agent)
         IN /\ register(once, agent) = once
            /\ IF \E i \in 1..Len(registry) : registry[i].id = id
               THEN /\ Ids(once) = Ids(registry)
                    /\ \A i \in 1..Len(registry) :
                         once[i] = IF registry[i].id = id THEN agent ELSE registry[i]
               ELSE once = Append(registry, agent)

\* a profile was registered under an id that was present, with another
\* profile stored before it, and the registry still holds one entry per id
C24_Witness ==
    /\ last.op = "register" /\ last.code = 1
    /\ Len(registry) = 2
    /\ registry[2].id = last.task
    /\ registry[1].status = "working"

----------------------------------------------------------------------------
(* Task listings: FirestoreDB.list_tasks and TaskRepository.list_by_project *)
(* over a store of task documents.                                          *)

MaxStored == 3

Priorities == {"high", "medium", "low"}
Projects == {1, 2}

NotListed == [store |-> "none", project_id |-> 0, result |-> <<>>]

\* the store keeps documents under generated ids: a new document may come
\* at any place among the ones already there
InsertAt(seq, pos, x) ==
    SubSeq(seq, 1, pos - 1) \o <<x>> \o SubSeq(seq, pos, Len(seq))

\* create_task: created_at is the time of creation, later for a later task
StoreTask ==
    /\ Len(tasks) < MaxStored
    /\ \E project_id \in Projects : \E priority \in Priorities :
       \E pos \in 1..(Len(tasks) + 1) :
           tasks' = InsertAt(tasks, pos,
                             [project_id |-> project_id, priority |-> priority,
                              created_at |-> Len(tasks) + 1])
    /\ UNCHANGED <<tasks_lookup, artifacts, events, execs, invoked, plan_deps, last, budget,
                   max_inflight, plan, state, qa, registry, found, art, manager, listing>>

\* rows in ascending order of their sort keys (one number per row, no two
\* equal): a row stands after as many rows as have a smaller key
OrderByKey(rows, keys) ==
    LET place(i) == 1 + Cardinality({j \in 1..Len(rows) : keys[j] < keys[i]})
    IN [p \in 1..Len(rows) |-> rows[CHOOSE i \in 1..Len(rows) : place(i) = p]]

\* FirestoreDB.list_tasks: where project_id == ..., order_by('created_at')
list_tasks(rows, project_id) ==
    LET selected == SelectSeq(rows, LAMBDA row : row.project_id = project_id)
    IN OrderByKey(selected, [i \in 1..Len(selected) |-> selected[i].created_at])

\* priority is stored as text; text compares alphabetically
TextRank == [high |-> 1, low |-> 2, medium |-> 3]

\* TaskRepository.list_by_project: ORDER BY priority DESC, created_at ASC
list_by_project(rows, project_id) ==
    LET selected == SelectSeq(rows, LAMBDA row : row.project_id = project_id)
        latest == Len(rows) + 1
    IN OrderByKey(selected,
                  [i \in 1..Len(selected) |->
                      (3 - TextRank[selected[i].priority]) * latest + selected[i].created_at])

ListTasks ==
    /\ \E project_id \in Projects :
           listing' = [store |-> "firestore", project_id |-> project_id,
                       result |-> list_tasks(tasks, project_id)]
    /\ UNCHANGED <<tasks, tasks_lookup, artifacts, events, execs, invoked, plan_deps, last,
                   budget, max_inflight, plan, state, qa, registry, found, art, manager>>

ListByProject ==
    /\ \E project_id \in Projects :
           listing' = [store |-> "sql", project_id |-> project_id,
                       result |-> list_by_project(tasks, project_id)]
    /\ UNCHANGED <<tasks, tasks_lookup, artifacts, events, execs, invoked, plan_deps, last,
                   budget, max_inflight, plan, state, qa, registry, found, art, manager>>

InitList ==
    /\ NoTasks
    /\ plan = NoPlan
    /\ state = NoState
    /\ qa = NoQA
    /\ registry = NoRegistry /\ found = NoFound /\ art = NoArt
    /\ manager = NoManager /\ listing = NotListed

ListNext == StoreTask \/ ListTasks \/ ListByProject

SpecList == InitList /\ [][ListNext]_vars

PriorityRank == [high |-> 3, medium |-> 2, low |-> 1]

\* C25: a task listing is ordered by priority descending (high, medium,
\* low) and, among tasks of equal priority, by creation order ascending.
C25_ListingByPriorityThenCreation ==
    \A i, j \in 1..Len(listing.result) :
        i < j =>
            \/ PriorityRank[listing.result[i].priority] > PriorityRank[listing.result[j].priority]
            \/ /\ listing.result[i].priority = listing.result[j].priority
               /\ listing.result[i].created_at < listing.result[j].created_at

----------------------------------------------------------------------------
(* One Build & QA run to its end, with the result of each validation an    *)
(* input: test_code_node decides test_passed, the graph only reads it.     *)

\* test_code_node with the result of the validation given, then the
\* conditional edge
test_code_result(s, passed) ==
    LET tested == IF ~passed
                  THEN [s EXCEPT !.test_passed = FALSE,
                                 !.validation_feedback = "Error: Missing error handling"]
                  ELSE [s EXCEPT !.test_passed = TRUE,
                                 !.final_code = s.code_generated]
    IN [tested EXCEPT !.node = Route[should_retry_code(tested)]]

TestAnyOutcome ==
    \E r \in DOMAIN qa : \E passed \in BOOLEAN :
        /\ qa[r].node = "test_code"
        /\ qa' = [qa EXCEPT ![r] = test_code_result(qa[r], passed)]
        /\ QAFrame

\* run_build_qa_workflow: one invocation of the compiled graph
InitQARun ==
    /\ NoTasks
    /\ plan = NoPlan
    /\ state = NoState
    /\ qa \in [{1} -> {InitialQAState(m) : m \in 0..MaxQARetries}]
    /\ registry = NoRegistry /\ found = NoFound /\ art = NoArt
    /\ manager = NoManager /\ listing = NoListing

QARunNext == WriteCode \/ TestAnyOutcome \/ RetryCode \/ FinalizeCode

\* app.invoke runs node after node until END
SpecQARun == InitQARun /\ [][QARunNext]_vars /\ WF_vars(QARunNext)

\* C26: for every max_retries and every sequence of validation results the
\* Build & QA loop ends; retry_count never exceeds max_retries and
\* write_code runs at most max_retries + 1 times.
C26_QALoopTerminatesWithinBound ==
    /\ [](\A r \in DOMAIN qa : /\ qa[r].retry_count <= qa[r].max_retries
                               /\ qa[r].writes <= qa[r].max_retries + 1)
    /\ <>[](\A r \in DOMAIN qa : qa[r].node = "END")

\* a run whose every validation failed: it ended at the bound, after
\* max_retries retries and max_retries + 1 executions of write_code
C26_Witness ==
    \E r \in DOMAIN qa :
        /\ qa[r].node = "END" /\ ~qa[r].test_passed
        /\ qa[r].max_retries = MaxQARetries
        /\ qa[r].retry_count = qa[r].max_retries
        /\ qa[r].writes = qa[r].max_retries + 1

----------------------------------------------------------------------------
(* Approval while an execution of the task is still in flight.             *)

\* C27: the completion of an execution that was in flight when the task was
\* approved does not move the task out of completed: no step takes a task
\* from completed to pending_review.
C27_CompletedNotOverwritten ==
    [][\A t \in DOMAIN tasks :
          tasks[t].status = "completed" => tasks'[t].status # "pending_review"]_vars

----------------------------------------------------------------------------
(* Outcome of a Build & QA run.                                            *)

\* C28: a Build & QA run that has ended has status completed exactly when
\* its last validation passed, and then final_code is the code generated
\* last; a run that ended without a passing validation is not completed and
\* its final_code is unset.
C28_CompletedIffValidationPassed ==
    \A r \in DOMAIN qa :
        qa[r].node = "END" =>
            /\ (qa[r].status = "completed") <=> qa[r].test_passed
            /\ qa[r].test_passed => /\ qa[r].final_code = qa[r].code_generated
                                    /\ qa[r].final_code # "none"
            /\ ~qa[r].test_passed => /\ qa[r].final_code = "none"
                                     /\ qa[r].retry_count = qa[r].max_retries

\* one run ended completed after a passing validation, another ended with
\* its retries exhausted
C28_Witness ==
    \E r1, r2 \in DOMAIN qa :
        /\ qa[r1].node = "END" /\ qa[r1].status = "completed" /\ qa[r1].test_passed
        /\ qa[r1].final_code = "code"
        /\ qa[r2].node = "END" /\ ~qa[r2].test_passed /\ qa[r2].retry_count = qa[r2].max_retries

----------------------------------------------------------------------------
(* Frame of the task operations.                                           *)

----------------------------------------------------------------------------
(* The websocket connection manager: endpoints connecting and              *)
(* disconnecting while a broadcast walks over active_connections.          *)

MaxConnections == 2
MaxBroadcasts == 2

Connections == 1..MaxConnections

NoBroadcast == [pc |-> "idle", index |-> 0, disconnected |-> <<>>,
                delivered |-> {}, started_with |-> {}]

\* list.remove(x): the list without its first x
Remove(list, x) ==
    LET first == CHOOSE i \in 1..Len(list) :
                     list[i] = x /\ \A j \in 1..(i - 1) : list[j] # x
    IN SubSeq(list, 1, first - 1) \o SubSeq(list, first + 1, Len(list))

Holds(list, x) == \E i \in 1..Len(list) : list[i] = x

\* endpoint[c]: "none" before the client connects, "open" in the receive
\* loop, "closed" after manager.disconnect returned, "raised" after
\* manager.disconnect raised ValueError; client[c]: whether the peer is there
InitWS ==
    /\ NoTasks
    /\ plan = NoPlan
    /\ state = NoState
    /\ qa = NoQA
    /\ registry = NoRegistry /\ found = NoFound /\ art = NoArt
    /\ manager = [active_connections |-> <<>>,
                  endpoint |-> [c \in Connections |-> "none"],
                  client |-> [c \in Connections |-> "up"],
                  broadcast |-> NoBroadcast,
                  broadcasts |-> 0]
    /\ listing = NoListing

WSFrame == UNCHANGED <<tasks, tasks_lookup, artifacts, events, execs, invoked, plan_deps, last,
                       budget, max_inflight, plan, state, qa, registry, found, art, listing>>

\* websocket_endpoint, manager.connect: accept, append
Connect ==
    \E c \in Connections :
        /\ manager.endpoint[c] = "none"
        /\ manager' = [manager EXCEPT
                         !.active_connections = Append(@, c),
                         !.endpoint[c] = "open"]
        /\ WSFrame

\* the peer of an open connection goes away
ClientGone ==
    \E c \in Connections :
        /\ manager.endpoint[c] = "open"
        /\ manager.client[c] = "up"
        /\ manager' = [manager EXCEPT !.client[c] = "down"]
        /\ WSFrame

\* websocket_endpoint: receive_text raises WebSocketDisconnect and the
\* handler calls manager.disconnect, whose list.remove raises ValueError
\* when the connection is not in the list
Disconnect ==
    \E c \in Connections :
        /\ manager.endpoint[c] = "open"
        /\ manager.client[c] = "down"
        /\ IF Holds(manager.active_connections, c)
           THEN manager' = [manager EXCEPT
                              !.active_connections = Remove(@, c),
                              !.endpoint[c] = "closed"]
           ELSE manager' = [manager EXCEPT !.endpoint[c] = "raised"]
        /\ WSFrame

\* manager.broadcast is called: disconnected = [], the for loop begins
BroadcastBegin ==
    /\ manager.broadcast.pc = "idle"
    /\ manager.broadcasts < MaxBroadcasts
    /\ manager' = [manager EXCEPT
                     !.broadcasts = @ + 1,
                     !.broadcast = [pc |-> "sending", index |-> 1, disconnected |-> <<>>,
                                    delivered |-> {},
                                    started_with |-> {manager.active_connections[i] :
                                                        i \in 1..Len(manager.active_connections)}]]
    /\ WSFrame

\* one pass of the for loop: the iterator reads the live list at its index,
\* send_json is awaited and either returns or raises
BroadcastSend ==
    /\ manager.broadcast.pc = "sending"
    /\ manager.broadcast.index <= Len(manager.active_connections)
    /\ LET connection == manager.active_connections[manager.broadcast.index]
       IN manager' = [manager EXCEPT
                        !.broadcast.index = @ + 1,
                        !.broadcast.delivered =
                            IF manager.client[connection] = "up"
                            THEN @ \cup {connection} ELSE @,
                        !.broadcast.disconnected =
                            IF manager.client[connection] = "up"
                            THEN @ ELSE Append(@, connection)]
    /\ WSFrame

RECURSIVE RemovePresent(_, _)
\* for conn in disconnected: if conn in active_connections: remove(conn)
RemovePresent(list, disconnected) ==
    IF disconnected = <<>> THEN list
    ELSE RemovePresent(IF Holds(list, Head(disconnected))
                       THEN Remove(list, Head(disconnected)) ELSE list,
                       Tail(disconnected))

\* the iterator is exhausted: the failed connections are removed
BroadcastEnd ==
    /\ manager.broadcast.pc = "sending"
    /\ manager.broadcast.index > Len(manager.active_connections)
    /\ manager' = [manager EXCEPT
                     !.active_connections = RemovePresent(@, manager.broadcast.disconnected),
                     !.broadcast.pc = "idle"]
    /\ WSFrame

WSNext == Connect \/ ClientGone \/ Disconnect \/ BroadcastBegin \/ BroadcastSend \/ BroadcastEnd

SpecWS == InitWS /\ [][WSNext]_vars

\* manager.disconnect never raises
C30_DisconnectWithoutError ==
    \A c \in Connections : manager.endpoint[c] # "raised"

\* active_connections holds no connection whose endpoint has disconnected
C30_NoDisconnectedConnectionKept ==
    \A c \in Connections :
        manager.endpoint[c] \in {"closed", "raised"} => ~Holds(manager.active_connections, c)

\* a finished broadcast has delivered the message to every connection that
\* was connected when it began and is still connected with its peer there
C30_DeliveredToRemaining ==
    (manager.broadcast.pc = "idle" /\ manager.broadcasts > 0) =>
        \A c \in manager.broadcast.started_with :
            (manager.client[c] = "up" /\ manager.endpoint[c] = "open")
                => c \in manager.broadcast.delivered

\* C30: under every interleaving of connect, disconnect and broadcast a
\* connection that broadcast removed after a send failure is disconnected
\* without error, active_connections never holds a disconnected connection,
\* and a send failure on one connection does not keep the message from the
\* remaining connections.
C30_ConnectionManagerConsistent ==
    /\ C30_DisconnectWithoutError
    /\ C30_NoDisconnectedConnectionKept
    /\ C30_DeliveredToRemaining

====
